---- MODULE Spec2Model ----
(***************************************************************************)
(* Model of font_converter.py: one invocation of main() downloads a font,  *)
(* validates it, re-serialises it with fontTools, validates the result,    *)
(* moves it into the working directory, removes the scratch directory and  *)
(* prints three "::set-output" lines.                                      *)
(*                                                                         *)
(* Strings that the program slices (URLs, file names, format tags) are     *)
(* sequences of one-character strings.  A file's bytes are abstracted to   *)
(* what the program and the font library observe of them: whether TTFont   *)
(* can open the container and list its glyph order, how many glyphs it     *)
(* lists, whether TTFont.save can serialise it, its flavor and its size.   *)
(***************************************************************************)
EXTENDS Integers, Sequences, FiniteSets, TLC

VARIABLES
    procs,            \* the invocations of main() that are running
    args,             \* per invocation: argparse result (url, output_format, output_name)
    response,         \* per invocation: what the server answers for args.url
    dirs,             \* directories that exist below the working directory
    files,            \* the files on disk: path -> content
    pc,               \* per invocation: the stage of main() reached
    input_filename,   \* per invocation: main's local input_filename
    output_filename,  \* per invocation: main's local output_filename
    input_size,       \* per invocation: main's local input_size
    output_size,      \* per invocation: main's local output_size
    out,              \* per invocation: the lines printed on standard output
    exit,             \* per invocation: process exit status, -1 while running
    calls,            \* per invocation: the FontConverter calls made, with results
    failedAt          \* per invocation: the stage at which the run failed

vars == <<procs, args, response, dirs, files, pc, input_filename,
          output_filename, input_size, output_size, out, exit, calls, failedAt>>

----------------------------------------------------------------------------
(* Bounds *)

MaxGlyphs == 1
MaxSize == 2
MaxUrlLen == 4

----------------------------------------------------------------------------
(* Strings *)

TTF == <<"t", "t", "f">>
OTF == <<"o", "t", "f">>
WOFF == <<"w", "o", "f", "f">>
WOFF2 == <<"w", "o", "f", "f", "2">>

\* argparse choices of --output-format
Formats == {TTF, OTF, WOFF, WOFF2}

temp_dir == "temp_fonts"
cwd == "."

\* str.rfind(ch): the last index of ch in s, 0 when absent (Python: -1)
rfind(s, ch) ==
    IF \E i \in 1..Len(s) : s[i] = ch
    THEN CHOOSE i \in 1..Len(s) : s[i] = ch /\ \A j \in (i+1)..Len(s) : s[j] # ch
    ELSE 0

\* str.find(ch): the first index of ch in s, 0 when absent
find(s, ch) ==
    IF \E i \in 1..Len(s) : s[i] = ch
    THEN CHOOSE i \in 1..Len(s) : s[i] = ch /\ \A j \in 1..(i-1) : s[j] # ch
    ELSE 0

\* os.path.basename(p): what follows the last "/"
basename(p) == SubSeq(p, rfind(p, "/") + 1, Len(p))

\* s.split('?')[0]: what precedes the first "?"
split_query(s) == IF find(s, "?") = 0 THEN s ELSE SubSeq(s, 1, find(s, "?") - 1)

\* main: input_filename = os.path.basename(args.url).split('?')[0]
InputFilename(url) == split_query(basename(url))

\* os.path.splitext(name)[0] for a name without "/": cut at the last dot,
\* unless only dots precede it
splitext_root(name) ==
    LET dot == rfind(name, ".")
    IN  IF dot > 0 /\ \E i \in 1..(dot - 1) : name[i] # "."
        THEN SubSeq(name, 1, dot - 1)
        ELSE name

\* main without the --output-name branch
OutputFilename_base_only(a, in_name) ==
    splitext_root(in_name) \o <<".">> \o a.output_format

\* main: the truthiness test of args.output_name picks the base name
OutputFilename(a, in_name) ==
    IF a.output_name.given /\ a.output_name.name # <<>>
    THEN a.output_name.name \o <<".">> \o a.output_format
    ELSE splitext_root(in_name) \o <<".">> \o a.output_format

\* os.path.join(temp_dir, name)
join(d, name) == <<d, name>>

\* open(path, 'wb') cannot create these names: they denote directories
IsDirName(name) == name \in {<<>>, <<".">>, <<".", ".">>}

----------------------------------------------------------------------------
(* File contents and the file system *)

Flavors == {"sfnt", "woff", "woff2"}
SaveOutcomes == {"ok", "raise", "bad"}

\* bytes TTFont cannot open
Junk(n) == [opens |-> FALSE, glyphs |-> 0, saves |-> "raise", flavor |-> "sfnt", size |-> n]

\* bytes TTFont opens: saves says what TTFont.save does with them ("ok": writes
\* a font that opens again, "raise": raises, "bad": writes bytes that do not open)
FontBodies ==
    {c \in [opens : {TRUE}, glyphs : 0..MaxGlyphs, saves : SaveOutcomes,
            flavor : Flavors, size : 1..MaxSize] :
        c.glyphs = 0 => (c.saves = "ok" /\ c.flavor = "sfnt" /\ c.size = 1)}

Bodies == {Junk(0), Junk(MaxSize)} \cup FontBodies

\* status "error": requests.get raises or raise_for_status raises;
\* "abort": the stream breaks after the file was opened; "ok": body arrives
Responses ==
    {[status |-> "error", body |-> Junk(0)], [status |-> "abort", body |-> Junk(0)]}
    \cup {[status |-> "ok", body |-> b] : b \in Bodies}

NoFiles == [p \in {} |-> Junk(0)]

Put(fs, path, c) == [q \in (DOMAIN fs) \cup {path} |-> IF q = path THEN c ELSE fs[q]]
Del(fs, path) == [q \in (DOMAIN fs) \ {path} |-> fs[q]]

\* os.makedirs(d, exist_ok=True)
makedirs(ds, d) == ds \cup {d}

\* open(path, 'wb') succeeds
CanCreate(ds, path) == path[1] \in ds /\ ~IsDirName(path[2])

----------------------------------------------------------------------------
(* FontConverter *)

\* TTFont(path) returns a font instead of raising
TTFontOpens(fs, path) == path \in DOMAIN fs /\ fs[path].opens

\* download_font without raise_for_status: an error page is stored as the font
download_font_unchecked(fs, ds, resp, path) ==
    IF ~CanCreate(ds, path) THEN [ok |-> FALSE, files |-> fs]
    ELSE IF resp.status = "abort" THEN [ok |-> FALSE, files |-> Put(fs, path, Junk(0))]
    ELSE [ok |-> TRUE, files |-> Put(fs, path, resp.body)]

\* download_font: [ok |-> the return value, files |-> the disk afterwards]
download_font(fs, ds, resp, path) ==
    IF resp.status = "error" THEN [ok |-> FALSE, files |-> fs]
    ELSE IF ~CanCreate(ds, path) THEN [ok |-> FALSE, files |-> fs]
    ELSE IF resp.status = "abort" THEN [ok |-> FALSE, files |-> Put(fs, path, Junk(0))]
    ELSE [ok |-> TRUE, files |-> Put(fs, path, resp.body)]

\* convert_font: the flavor that font.save writes
SavedFlavor(font, output_format) ==
    IF output_format = WOFF2 THEN "woff2"
    ELSE IF output_format = WOFF THEN "woff"
    ELSE font.flavor

\* convert_font whose save refuses to overwrite the file the font was read from
convert_font_no_overwrite(fs, ds, input_path, output_path, output_format, n) ==
    IF ~TTFontOpens(fs, input_path) THEN [ok |-> FALSE, files |-> fs]
    ELSE IF fs[input_path].saves = "raise" THEN [ok |-> FALSE, files |-> fs]
    ELSE IF ~CanCreate(ds, output_path) THEN [ok |-> FALSE, files |-> fs]
    ELSE IF output_path = input_path THEN [ok |-> FALSE, files |-> fs]
    ELSE [ok |-> TRUE,
          files |-> Put(fs, output_path,
                        [opens |-> fs[input_path].saves = "ok",
                         glyphs |-> fs[input_path].glyphs,
                         saves |-> fs[input_path].saves,
                         flavor |-> SavedFlavor(fs[input_path], output_format),
                         size |-> n])]

\* convert_font: [ok |-> the return value, files |-> the disk afterwards];
\* n is the number of bytes the library serialises the font to
convert_font(fs, ds, input_path, output_path, output_format, n) ==
    IF ~TTFontOpens(fs, input_path) THEN [ok |-> FALSE, files |-> fs]
    ELSE IF fs[input_path].saves = "raise" THEN [ok |-> FALSE, files |-> fs]
    ELSE IF ~CanCreate(ds, output_path) THEN [ok |-> FALSE, files |-> fs]
    ELSE [ok |-> TRUE,
          files |-> Put(fs, output_path,
                        [opens |-> fs[input_path].saves = "ok",
                         glyphs |-> fs[input_path].glyphs,
                         saves |-> fs[input_path].saves,
                         flavor |-> SavedFlavor(fs[input_path], output_format),
                         size |-> n])]

\* validate_font that accepts an empty glyph order
validate_font_any_count(fs, path) == TTFontOpens(fs, path) /\ fs[path].glyphs >= 0

\* validate_font: every exception is folded into False
validate_font(fs, path) == TTFontOpens(fs, path) /\ fs[path].glyphs > 0

\* os.rename(src, dst) on an existing src
rename(fs, src, dst) == Put(Del(fs, src), dst, fs[src])

\* shutil.rmtree(d): the files left on disk
rmtree(fs, d) == [q \in {x \in DOMAIN fs : x[1] # d} |-> fs[q]]

----------------------------------------------------------------------------
(* main *)

Call(fn, ret) == [fn |-> fn, ret |-> ret]

Fail(p, stage) ==
    /\ pc' = [pc EXCEPT ![p] = "FAILED"]
    /\ exit' = [exit EXCEPT ![p] = 1]
    /\ failedAt' = [failedAt EXCEPT ![p] = stage]

Advance(p, stage) ==
    /\ pc' = [pc EXCEPT ![p] = stage]
    /\ UNCHANGED <<exit, failedAt>>

\* lines 102-111: makedirs, input_filename, download_font
Download(p) ==
    /\ pc[p] = "START"
    /\ LET name == InputFilename(args[p].url)
           ds == makedirs(dirs, temp_dir)
           r == download_font(files, ds, response[p], join(temp_dir, name))
       IN  /\ dirs' = ds
           /\ files' = r.files
           /\ input_filename' = [input_filename EXCEPT ![p] = name]
           /\ calls' = [calls EXCEPT ![p] = Append(@, Call("download_font", r.ok))]
           /\ IF r.ok THEN Advance(p, "DOWNLOADED") ELSE Fail(p, "download")
    /\ UNCHANGED <<procs, args, response, output_filename, input_size, output_size, out>>

\* ValidateIn without the sys.exit(1): the run goes on after a failed validation
ValidateIn_no_exit(p) ==
    /\ pc[p] = "DOWNLOADED"
    /\ LET v == validate_font(files, join(temp_dir, input_filename[p]))
       IN  calls' = [calls EXCEPT ![p] = Append(@, Call("validate_font", v))]
    /\ Advance(p, "VALIDATED_IN")
    /\ UNCHANGED <<procs, args, response, dirs, files, input_filename,
                   output_filename, input_size, output_size, out>>

\* lines 113-116: validate_font(input_path)
ValidateIn(p) ==
    /\ pc[p] = "DOWNLOADED"
    /\ LET v == validate_font(files, join(temp_dir, input_filename[p]))
       IN  /\ calls' = [calls EXCEPT ![p] = Append(@, Call("validate_font", v))]
           /\ IF v THEN Advance(p, "VALIDATED_IN") ELSE Fail(p, "validate_in")
    /\ UNCHANGED <<procs, args, response, dirs, files, input_filename,
                   output_filename, input_size, output_size, out>>

\* lines 118-129: output_filename, convert_font
Convert(p) ==
    /\ pc[p] = "VALIDATED_IN"
    /\ \E n \in 1..MaxSize :
         LET name == OutputFilename(args[p], input_filename[p])
             r == convert_font(files, dirs, join(temp_dir, input_filename[p]),
                               join(temp_dir, name), args[p].output_format, n)
         IN  /\ files' = r.files
             /\ output_filename' = [output_filename EXCEPT ![p] = name]
             /\ calls' = [calls EXCEPT ![p] = Append(@, Call("convert_font", r.ok))]
             /\ IF r.ok THEN Advance(p, "CONVERTED") ELSE Fail(p, "convert")
    /\ UNCHANGED <<procs, args, response, dirs, input_filename, input_size,
                   output_size, out>>

\* ValidateOut without the sys.exit(1)
ValidateOut_no_exit(p) ==
    /\ pc[p] = "CONVERTED"
    /\ LET v == validate_font(files, join(temp_dir, output_filename[p]))
       IN  calls' = [calls EXCEPT ![p] = Append(@, Call("validate_font", v))]
    /\ Advance(p, "VALIDATED_OUT")
    /\ UNCHANGED <<procs, args, response, dirs, files, input_filename,
                   output_filename, input_size, output_size, out>>

\* lines 131-134: validate_font(output_path)
ValidateOut(p) ==
    /\ pc[p] = "CONVERTED"
    /\ LET v == validate_font(files, join(temp_dir, output_filename[p]))
       IN  /\ calls' = [calls EXCEPT ![p] = Append(@, Call("validate_font", v))]
           /\ IF v THEN Advance(p, "VALIDATED_OUT") ELSE Fail(p, "validate_out")
    /\ UNCHANGED <<procs, args, response, dirs, files, input_filename,
                   output_filename, input_size, output_size, out>>

\* lines 136-147: getsize of both paths, the ratio, os.rename; a missing
\* file or a zero input_size raises and the interpreter exits 1
Publish(p) ==
    /\ pc[p] = "VALIDATED_OUT"
    /\ LET input_path == join(temp_dir, input_filename[p])
           output_path == join(temp_dir, output_filename[p])
       IN  IF /\ input_path \in DOMAIN files
              /\ output_path \in DOMAIN files
              /\ files[input_path].size # 0
           THEN /\ input_size' = [input_size EXCEPT ![p] = files[input_path].size]
                /\ output_size' = [output_size EXCEPT ![p] = files[output_path].size]
                /\ files' = rename(files, output_path, join(cwd, output_filename[p]))
                /\ Advance(p, "PUBLISHED")
           ELSE /\ UNCHANGED <<input_size, output_size, files>>
                /\ Fail(p, "publish")
    /\ UNCHANGED <<procs, args, response, dirs, input_filename, output_filename,
                   out, calls>>

\* Clean that empties the scratch directory but leaves the directory itself
Clean_keep_dir(p) ==
    /\ pc[p] = "PUBLISHED"
    /\ IF temp_dir \in dirs
       THEN /\ files' = rmtree(files, temp_dir)
            /\ dirs' = dirs
            /\ Advance(p, "CLEANED")
       ELSE /\ UNCHANGED <<files, dirs>>
            /\ Fail(p, "cleanup")
    /\ UNCHANGED <<procs, args, response, input_filename, output_filename,
                   input_size, output_size, out, calls>>

\* lines 149-151: shutil.rmtree(temp_dir); a missing directory raises
Clean(p) ==
    /\ pc[p] = "PUBLISHED"
    /\ IF temp_dir \in dirs
       THEN /\ files' = rmtree(files, temp_dir)
            /\ dirs' = dirs \ {temp_dir}
            /\ Advance(p, "CLEANED")
       ELSE /\ UNCHANGED <<files, dirs>>
            /\ Fail(p, "cleanup")
    /\ UNCHANGED <<procs, args, response, input_filename, output_filename,
                   input_size, output_size, out, calls>>

\* lines 153-155: the three set-output lines, then exit status 0
Emit(p) ==
    /\ pc[p] = "CLEANED"
    /\ out' = [out EXCEPT ![p] =
                 << [name |-> "converted_file", value |-> output_filename[p]],
                    [name |-> "input_size", value |-> input_size[p]],
                    [name |-> "output_size", value |-> output_size[p]] >>]
    /\ pc' = [pc EXCEPT ![p] = "DONE"]
    /\ exit' = [exit EXCEPT ![p] = 0]
    /\ UNCHANGED <<procs, args, response, dirs, files, input_filename,
                   output_filename, input_size, output_size, calls, failedAt>>

Next ==
    \/ \E p \in procs : Download(p)
    \/ \E p \in procs : ValidateIn(p)
    \/ \E p \in procs : Convert(p)
    \/ \E p \in procs : ValidateOut(p)
    \/ \E p \in procs : Publish(p)
    \/ \E p \in procs : Clean(p)
    \/ \E p \in procs : Emit(p)

----------------------------------------------------------------------------
(* Invocations *)

Host == <<"h", "/">>

\* URLs whose last segment carries each supported extension, a query
\* string, a query string with a "/", no extension, or no file name
Urls ==
    {Host \o <<"a", ".">> \o f : f \in Formats}
    \cup {Host \o <<"a", ".">> \o TTF \o <<"?", "v">>,
          Host \o <<"a", ".">> \o TTF \o <<"?", "/", "b">>,
          Host \o <<"a">>,
          Host}

NotGiven == [given |-> FALSE, name |-> <<>>]
Given(n) == [given |-> TRUE, name |-> n]

OutputNames == {NotGiven, Given(<<>>), Given(<<"a">>), Given(<<"f">>)}

Args == [url : Urls, output_format : Formats, output_name : OutputNames]

\* what an earlier failed run may have left in the scratch directory
StaleFile == join(temp_dir, <<"o">>)

\* the process of a single invocation, the processes of two concurrent ones
SingleRun == {1}
TwoRuns == {1, 2}

InitLocals(P) ==
    /\ procs = P
    /\ pc = [p \in P |-> "START"]
    /\ input_filename = [p \in P |-> <<>>]
    /\ output_filename = [p \in P |-> <<>>]
    /\ input_size = [p \in P |-> 0]
    /\ output_size = [p \in P |-> 0]
    /\ out = [p \in P |-> <<>>]
    /\ exit = [p \in P |-> -1]
    /\ calls = [p \in P |-> <<>>]
    /\ failedAt = [p \in P |-> "none"]

\* one invocation in a working directory that holds nothing but, possibly,
\* the scratch directory of an earlier failed run
Init ==
    /\ InitLocals(SingleRun)
    /\ args \in [SingleRun -> Args]
    /\ response \in [SingleRun -> Responses]
    /\ \/ dirs = {} /\ files = NoFiles
       \/ dirs = {temp_dir} /\ files = Put(NoFiles, StaleFile, Junk(0))

Spec == Init /\ [][Next]_vars

\* main() is sequential code: a run that can take a step takes it
FairSpec == Spec /\ WF_vars(Next)

----------------------------------------------------------------------------
(* Two invocations started in the same working directory *)

ConcArgs ==
    [url : {Host \o <<"a", ".">> \o TTF, Host \o <<"a", ".">> \o OTF},
     output_format : {TTF, WOFF2},
     output_name : {NotGiven, Given(<<"f">>)}]

GoodFont == [opens |-> TRUE, glyphs |-> 1, saves |-> "ok", flavor |-> "sfnt", size |-> 1]

ConcResponses == {[status |-> "error", body |-> Junk(0)], [status |-> "ok", body |-> GoodFont]}

ConcInit ==
    /\ InitLocals(TwoRuns)
    /\ args \in [TwoRuns -> ConcArgs]
    /\ response \in [TwoRuns -> ConcResponses]
    /\ dirs = {}
    /\ files = NoFiles

ConcSpec == ConcInit /\ [][Next]_vars

----------------------------------------------------------------------------
(* The input file name as a function of the URL alone *)

UrlChars == {"a", "/", "?", "."}

AllUrls == UNION {[1..n -> UrlChars] : n \in 0..MaxUrlLen}

\* line 106 alone
GenerateName(p) ==
    /\ pc[p] = "START"
    /\ input_filename' = [input_filename EXCEPT ![p] = InputFilename(args[p].url)]
    /\ pc' = [pc EXCEPT ![p] = "NAMED"]
    /\ UNCHANGED <<procs, args, response, dirs, files, output_filename, input_size,
                   output_size, out, exit, calls, failedAt>>

NameInit ==
    /\ InitLocals(SingleRun)
    /\ args \in [SingleRun -> [url : AllUrls, output_format : {TTF}, output_name : {NotGiven}]]
    /\ response = [p \in SingleRun |-> [status |-> "error", body |-> Junk(0)]]
    /\ dirs = {}
    /\ files = NoFiles

NameNext == \E p \in procs : GenerateName(p)

NameSpec == NameInit /\ [][NameNext]_vars

----------------------------------------------------------------------------
(* Properties *)

Ended(p) == pc[p] \in {"DONE", "FAILED"}

\* the four FontConverter calls of a run were all made and all returned True
AllFourOk(p) == Len(calls[p]) = 4 /\ \A i \in 1..4 : calls[p][i].ret

\* the files present in directory d
FilesIn(d) == {q \in DOMAIN files : q[1] = d}

\* the body TTFont would reject or find without glyphs
InvalidBody(b) == ~b.opens \/ b.glyphs = 0

\* a font that opens, lists glyphs and serialises to a font that opens again
SoundBody(b) == b.opens /\ b.glyphs > 0 /\ b.saves = "ok"

\* n is b followed by an extension: "." and a dot-free tail, b not only dots
IsBaseOf(b, n) ==
    \/ /\ b = n
       /\ ~\E k \in 2..Len(n) : n[k] = "." /\ \E i \in 1..(k-1) : n[i] # "."
    \/ \E k \in 2..Len(n) :
         /\ n[k] = "."
         /\ \A j \in (k+1)..Len(n) : n[j] # "."
         /\ \E i \in 1..(k-1) : n[i] # "."
         /\ b = SubSeq(n, 1, k-1)

\* the file a finished run published: named by the converted_file line
PublishedAs(p, name) ==
    /\ Len(out[p]) = 3
    /\ out[p][1] = [name |-> "converted_file", value |-> name]
    /\ join(cwd, name) \in DOMAIN files

(* C1 as stated: after a successful run, and after a run that failed at       *)
(* output validation or later, the scratch directory does not exist.          *)
C1_ScratchAbsentAlsoAfterLateFailure ==
    \A p \in procs :
        (\/ pc[p] = "DONE"
         \/ pc[p] = "FAILED" /\ failedAt[p] \in {"validate_out", "publish", "cleanup"})
        => temp_dir \notin dirs

(* C1 amended: after a successful run the scratch directory and everything in *)
(* it is gone; a run that fails at output validation exits without cleanup    *)
(* and leaves the scratch directory, with the converted file, in place.       *)
C1_ScratchAbsentAfterSuccessOnly ==
    \A p \in procs :
        /\ pc[p] \in {"CLEANED", "DONE"} => (temp_dir \notin dirs /\ FilesIn(temp_dir) = {})
        /\ (pc[p] = "FAILED" /\ failedAt[p] = "validate_out")
             => (temp_dir \in dirs /\ join(temp_dir, output_filename[p]) \in DOMAIN files)

C1_Witness ==
    \E p \in procs : pc[p] = "FAILED" /\ failedAt[p] = "validate_out" /\ temp_dir \in dirs

(* C2: exit status 0 exactly when download, input validation, conversion and  *)
(* output validation all returned True; a stage that returns False ends the   *)
(* run with status 1; the three set-output lines appear only with status 0.   *)
C2_ExitStatus ==
    \A p \in procs :
        /\ exit[p] = 0 => AllFourOk(p)
        /\ (Ended(p) /\ AllFourOk(p)) => exit[p] = 0
        /\ (\E i \in 1..Len(calls[p]) : ~calls[p][i].ret) => (pc[p] = "FAILED" /\ exit[p] = 1)
        /\ Ended(p) => exit[p] \in {0, 1}
        /\ Len(out[p]) # 0 =>
             /\ exit[p] = 0
             /\ [i \in 1..Len(out[p]) |-> out[p][i].name]
                  = <<"converted_file", "input_size", "output_size">>

C2_Witness ==
    \E p \in procs : exit[p] = 0 /\ Len(out[p]) = 3 /\ AllFourOk(p)

(* C3: when the fetch fails the run exits 1 after the one download_font call, *)
(* nothing is validated or converted, and the working directory holds no      *)
(* output file.                                                               *)
C3_FetchFailure ==
    \A p \in procs :
        (response[p].status # "ok" /\ pc[p] # "START") =>
            /\ pc[p] = "FAILED"
            /\ exit[p] = 1
            /\ calls[p] = <<Call("download_font", FALSE)>>
            /\ FilesIn(cwd) = {}
            /\ Len(out[p]) = 0

C3_Witness ==
    \E p \in procs : response[p].status = "error" /\ pc[p] = "FAILED" /\ exit[p] = 1

(* C4: a downloaded file that does not open as a font, or lists no glyphs,    *)
(* makes validate_font return False, the run exit 1, and convert_font is not  *)
(* called; convert_font is only ever called right after a validate_font that  *)
(* returned True.                                                             *)
C4_NoConversionOfInvalidFont ==
    \A p \in procs :
        /\ (Len(calls[p]) >= 2 /\ InvalidBody(response[p].body)) =>
              /\ calls[p] = <<Call("download_font", TRUE), Call("validate_font", FALSE)>>
              /\ pc[p] = "FAILED"
              /\ failedAt[p] = "validate_in"
              /\ exit[p] = 1
        /\ \A i \in 1..Len(calls[p]) :
              calls[p][i].fn = "convert_font" =>
                  (i > 1 /\ calls[p][i-1] = Call("validate_font", TRUE))

C4_Witness ==
    \E p \in procs :
        /\ response[p].body.opens
        /\ response[p].body.glyphs = 0
        /\ pc[p] = "FAILED"
        /\ failedAt[p] = "validate_in"

(* C5 as stated: the published file is <output-name>.<format> whenever        *)
(* --output-name is given, <original-base-name>.<format> otherwise, and the   *)
(* converted_file line names it.                                              *)
C5_NameWheneverGiven ==
    \A p \in procs :
        pc[p] = "DONE" =>
            IF args[p].output_name.given
            THEN PublishedAs(p, args[p].output_name.name \o <<".">> \o args[p].output_format)
            ELSE \E b \in {SubSeq(input_filename[p], 1, k) : k \in 0..Len(input_filename[p])} :
                    /\ IsBaseOf(b, input_filename[p])
                    /\ PublishedAs(p, b \o <<".">> \o args[p].output_format)

(* C5 amended: the published file is <output-name>.<format> when              *)
(* --output-name is given and not empty, <original-base-name>.<format> when   *)
(* it is absent or empty, and the converted_file line names it.               *)
C5_NameWhenGivenNonEmpty ==
    \A p \in procs :
        pc[p] = "DONE" =>
            IF args[p].output_name.given /\ args[p].output_name.name # <<>>
            THEN PublishedAs(p, args[p].output_name.name \o <<".">> \o args[p].output_format)
            ELSE \E b \in {SubSeq(input_filename[p], 1, k) : k \in 0..Len(input_filename[p])} :
                    /\ IsBaseOf(b, input_filename[p])
                    /\ PublishedAs(p, b \o <<".">> \o args[p].output_format)

C5_Witness ==
    \E p \in procs :
        /\ pc[p] = "DONE"
        /\ args[p].output_name = Given(<<"f">>)
        /\ PublishedAs(p, <<"f", ".">> \o args[p].output_format)

(* C6: on a successful run input_size is the size of the file as downloaded,  *)
(* output_size the size of the published file, and both are positive.         *)
C6_SizesReported ==
    \A p \in procs :
        pc[p] = "DONE" =>
            /\ out[p][2] = [name |-> "input_size", value |-> response[p].body.size]
            /\ out[p][3] = [name |-> "output_size",
                            value |-> files[join(cwd, output_filename[p])].size]
            /\ out[p][2].value > 0
            /\ out[p][3].value > 0

\* name ends in "." and ext, after a non-empty stem
HasExtension(name, ext) ==
    /\ Len(name) > Len(ext) + 1
    /\ SubSeq(name, Len(name) - Len(ext), Len(name)) = <<".">> \o ext

\* the downloaded file is a sound font under the extension of --output-format
SameFormat(p) ==
    /\ response[p].status = "ok"
    /\ SoundBody(response[p].body)
    /\ HasExtension(InputFilename(args[p].url), args[p].output_format)

StageOrder ==
    <<"START", "DOWNLOADED", "VALIDATED_IN", "CONVERTED", "VALIDATED_OUT",
      "PUBLISHED", "CLEANED", "DONE">>

StageIndex(st) == CHOOSE i \in 1..Len(StageOrder) : StageOrder[i] = st

(* C8: a run moves from each stage to the next one in the fixed order, or to  *)
(* FAILED with status 1 at the first stage that fails; it reaches DONE or     *)
(* FAILED, which it never leaves; the set-output lines are printed only after *)
(* the rename into the working directory and the removal of the scratch       *)
(* directory.                                                                 *)
C8_StageOrder ==
    /\ [][\A p \in procs :
            pc'[p] # pc[p] =>
                /\ ~Ended(p)
                /\ \/ pc'[p] = StageOrder[StageIndex(pc[p]) + 1]
                   \/ pc'[p] = "FAILED" /\ exit'[p] = 1]_vars
    /\ [](\A p \in procs :
            /\ (\E i \in 1..Len(calls[p]) : ~calls[p][i].ret) => pc[p] = "FAILED"
            /\ Len(out[p]) # 0 =>
                  /\ pc[p] = "DONE"
                  /\ join(cwd, output_filename[p]) \in DOMAIN files
                  /\ temp_dir \notin dirs)
    /\ \A q \in SingleRun : <>(Ended(q))

C8_Witness ==
    \E p \in procs :
        /\ pc[p] = "DONE"
        /\ Len(out[p]) = 3
        /\ join(cwd, output_filename[p]) \in DOMAIN files
        /\ temp_dir \notin dirs

\* the last segment of the URL's path: what follows the last "/" of what
\* precedes the first "?"
LastPathSegment(url) == basename(split_query(url))

(* C9: the local file name is the last segment of the URL's path with the     *)
(* query string removed, also when the query string contains "/".             *)
C9_NameIsLastPathSegment ==
    \A p \in procs :
        pc[p] = "NAMED" => input_filename[p] = LastPathSegment(args[p].url)

\* what the run of p alone does: it succeeds
SucceedsAlone(p) ==
    /\ response[p].status = "ok"
    /\ SoundBody(response[p].body)
    /\ ~IsDirName(InputFilename(args[p].url))

(* C10: of two invocations started in the same working directory, each one    *)
(* that would succeed alone succeeds under every interleaving: no file it     *)
(* still needs is removed or overwritten by the other.                        *)
C10_NoInterference ==
    \A p \in procs : SucceedsAlone(p) => pc[p] # "FAILED"

====
